---- MODULE Spec2Model ----
(***************************************************************************)
(* The Isaac Sim silent installer (isaacsim_installer.py): a Tk window     *)
(* with one button.  start_installation writes a temporary script, spawns  *)
(* it as a background process and arms a 1000 ms timer; _monitor_process   *)
(* polls the process and re-arms itself until the process has exited.      *)
(* Every Tk callback runs to completion on the single GUI thread, so each  *)
(* handler is one action.  The message boxes are modal and are shown while *)
(* the button is disabled and no timer is pending, so no other handler can *)
(* run while one is open.                                                  *)
(*                                                                         *)
(* The retrying command runner of the specification (section 4.1) is not   *)
(* part of isaacsim_installer.py; it is modelled from the specification    *)
(* text under its own specification, RunnerSpec.                           *)
(***************************************************************************)
EXTENDS Integers, Sequences, FiniteSets, TLC

\* ---------------------------------------------------------------- bounds
MaxRuns == 2          \* start-button triggers followed in one behaviour
MaxExit == 2          \* exit statuses 0..MaxExit
MaxPolls == 1         \* the poll counter saturates here
MaxRetriesBound == 3  \* max_retries ranges over 1..MaxRetriesBound

\* ------------------------------------------------------ program constants
IS_TEST_MODE == TRUE
POLL_INTERVAL == 1000

VARIABLES
    IS_WINDOWS,      \* platform.system().lower() == 'windows'
    vista_theme,     \* whether Tk can provide the ttk theme 'vista'
    mainloop,        \* "running" once the window is built, "crashed" otherwise
    install_button,  \* state of the button: "normal" | "disabled"
    status_var,      \* text of the status label
    progress,        \* [packed, running] of the progress bar
    script,          \* the temporary script file at script_path
    runs,            \* one record per start_installation call
    procs,           \* the Popen objects created so far
    timers,          \* pending after() callbacks: [proc, ms]
    dialogs,         \* the messagebox calls made so far
    cmd, max_retries, attempt, rpc, outcomes, sleeps, raised

envVars == <<IS_WINDOWS, vista_theme, mainloop>>
guiVars == <<IS_WINDOWS, vista_theme, mainloop, install_button, status_var, progress,
             script, runs, procs, timers, dialogs>>
runnerVars == <<cmd, max_retries, attempt, rpc, outcomes, sleeps, raised>>
vars == <<guiVars, runnerVars>>

\* ------------------------------------------------------------ environment
\* Popen.returncode: the exit status, or -N on POSIX for a child killed by
\* signal N.
ExitCodes(isWindows) ==
    IF isWindows THEN 0..MaxExit ELSE (0 - MaxExit)..MaxExit
OSErrors == {"PermissionError", "OSError: No space left on device"}
SpawnErrors == {"FileNotFoundError", "PermissionError"}
None == <<>>

READY == "Ready to start installation."
STARTED == "Installation started in the background. Please wait..."
FINISHED == "Installation finished successfully!"
FAILED == "Installation failed. Please see the error message."

NoScript == [exists |-> FALSE, content |-> <<>>, complete |-> FALSE,
             executable |-> FALSE, writer |-> 0]

RemoveAt(s, i) == SubSeq(s, 1, i - 1) \o SubSeq(s, i + 1, Len(s))

\* ---------------------------------------------------------------- helpers
\* ttk.Style.theme_use('vista'): the theme is built into Tk on Windows only;
\* elsewhere Tk looks for a package ttk::theme::vista, and without one the
\* constructor raises and mainloop() is never entered.
ThemeChoices(isWindows) == IF isWindows THEN {TRUE} ELSE BOOLEAN

Construct(hasTheme) == IF hasTheme THEN "running" ELSE "crashed"

generate_script_content(testMode, isWindows) ==
    IF testMode THEN
        IF isWindows
        THEN [content |-> <<"@echo off", "echo Starting test script...",
                            "timeout /t 5 /nobreak >nul", "echo Test complete.">>,
              filename |-> "test_script.bat"]
        ELSE [content |-> <<"#!/bin/bash", "echo 'Starting test script...'",
                            "sleep 5", "echo 'Test complete.'">>,
              filename |-> "test_script.sh"]
    ELSE
        IF isWindows
        THEN [content |-> <<"@echo off",
                            "echo Starting Isaac Sim Environment Setup for Windows...",
                            "conda create -n isaac_sim_50 python=3.11 -y",
                            "CALL conda activate isaac_sim_50",
                            "echo Environment activated. Installing dependencies...",
                            "pip install --upgrade pip",
                            "pip install torch==2.2.0 torchvision==0.17.0 --extra-index-url https://download.pytorch.org/whl/cu121",
                            "pip install \"isaacsim[all,extscache]==5.0.0\" --extra-index-url https://pypi.nvidia.com",
                            "echo Installation complete. Launching Isaac Sim...",
                            "isaacsim">>,
              filename |-> "install_script.bat"]
        ELSE [content |-> <<"#!/bin/bash",
                            "echo 'Starting Isaac Sim Environment Setup for Linux/macOS...'",
                            "conda create -n isaac_sim_50 python=3.11 -y",
                            "source $(conda info --base)/etc/profile.d/conda.sh",
                            "conda activate isaac_sim_50",
                            "echo 'Environment activated. Installing dependencies...'",
                            "pip install --upgrade pip",
                            "pip install torch==2.2.0 torchvision==0.17.0 --extra-index-url https://download.pytorch.org/whl/cu121",
                            "pip install 'isaacsim[all,extscache]==5.0.0' --extra-index-url https://pypi.nvidia.com",
                            "echo 'Installation complete. Launching Isaac Sim...'",
                            "isaacsim">>,
              filename |-> "install_script.sh"]

\* The stages of "1. Write the script to a temporary file" that can raise.
WriteStages(isWindows) ==
    {"open", "write"} \cup (IF isWindows THEN {} ELSE {"chmod"})

WriteOutcomes(isWindows) ==
    {[stage |-> "ok", err |-> ""]}
    \cup [stage : WriteStages(isWindows), err : OSErrors]

\* open(script_path, 'w') creates or truncates; f.write stores the content;
\* os.chmod(0o755) only off Windows.  `stage` is where an exception is raised.
WriteScript(old, gen, stage, isWindows, run) ==
    CASE stage = "open"  -> old
      [] stage = "write" -> [exists |-> TRUE, content |-> <<>>, complete |-> FALSE,
                             executable |-> FALSE, writer |-> run]
      [] stage = "chmod" -> [exists |-> TRUE, content |-> gen.content,
                             complete |-> TRUE, executable |-> FALSE, writer |-> run]
      [] OTHER           -> [exists |-> TRUE, content |-> gen.content,
                             complete |-> TRUE, executable |-> ~isWindows,
                             writer |-> run]

\* The widget state start_installation sets before anything can fail.
StartGuiNoDisable ==
    [install_button |-> "normal", status_var |-> STARTED,
     progress |-> [packed |-> TRUE, running |-> TRUE]]

StartGui ==
    [install_button |-> "disabled", status_var |-> STARTED,
     progress |-> [packed |-> TRUE, running |-> TRUE]]

reset_gui_keeps_disabled(g) ==
    [install_button |-> g.install_button, status_var |-> READY,
     progress |-> [packed |-> FALSE, running |-> FALSE]]

reset_gui(g) ==
    [install_button |-> "normal", status_var |-> READY,
     progress |-> [packed |-> FALSE, running |-> FALSE]]

SetGui(g) ==
    /\ install_button' = g.install_button
    /\ status_var' = g.status_var
    /\ progress' = g.progress

showerror(title, text, run) ==
    [kind |-> "error", title |-> title, text |-> text, run |-> run]

showinfo(title, text, run) ==
    [kind |-> "info", title |-> title, text |-> text, run |-> run]

\* The argument list handed to subprocess.Popen.
PopenArgs(isWindows, script_path) ==
    IF isWindows THEN <<"cmd.exe", "/C", script_path>>
    ELSE <<"nohup", script_path, "&">>

Popen(args, script_path, run) ==
    [args |-> args, script_path |-> script_path, run |-> run,
     state |-> "running", exit_status |-> 0, returncode |-> None,
     polls |-> 0, observed |-> 0, remove |-> "none"]

\* self.after(1000, callback): one more pending timer.
after_never(ts, ms, p) == ts

after(ts, ms, p) == Append(ts, [proc |-> p, ms |-> ms])

\* process.poll(): None while the child runs, else its exit status, which is
\* stored in returncode.
poll(proc) ==
    IF proc.state = "running" THEN proc
    ELSE [proc EXCEPT !.returncode = <<proc.exit_status>>]

\* "Clean up the temporary script": only in the branch taken once the process
\* has finished; try: os.remove(script_path) except Exception: pass
cleanup_script_every_poll(old, done, outcome) ==
    IF old.exists /\ outcome = "ok" THEN NoScript ELSE old

cleanup_script(old, done, outcome) ==
    IF done /\ old.exists /\ outcome = "ok" THEN NoScript ELSE old

RemoveOutcomes == {"ok", "locked"}

\* The dialog and status text chosen from process.returncode.
ReportAnyExit(returncode, testMode, run) ==
    IF returncode[1] >= 0
    THEN [dialog |-> showinfo("Success",
                        IF testMode
                        THEN <<"Test completed successfully! The installer logic works.">>
                        ELSE <<"Isaac Sim installation is complete and should now be launched!">>,
                        run),
          status |-> FINISHED]
    ELSE [dialog |-> showerror("Installation Failed",
                        <<"The installation script finished with errors. ",
                          "Please check your Conda installation and try again.">>,
                        run),
          status |-> FAILED]

Report(returncode, testMode, run) ==
    IF returncode = <<0>>
    THEN [dialog |-> showinfo("Success",
                        IF testMode
                        THEN <<"Test completed successfully! The installer logic works.">>
                        ELSE <<"Isaac Sim installation is complete and should now be launched!">>,
                        run),
          status |-> FINISHED]
    ELSE [dialog |-> showerror("Installation Failed",
                        <<"The installation script finished with errors. ",
                          "Please check your Conda installation and try again.">>,
                        run),
          status |-> FAILED]

\* self.install_button.config(state=tk.NORMAL) at the end of _monitor_process.
MonitorButtonStuck == "disabled"

MonitorButton == "normal"

\* ------------------------------------------------------------------ Init
GuiInit ==
    /\ IS_WINDOWS \in BOOLEAN
    /\ vista_theme \in ThemeChoices(IS_WINDOWS)
    /\ mainloop = Construct(vista_theme)
    /\ install_button = "normal"
    /\ status_var = READY
    /\ progress = [packed |-> FALSE, running |-> FALSE]
    /\ script \in {NoScript}
    /\ runs = <<>>
    /\ procs = <<>>
    /\ timers = <<>>
    /\ dialogs = <<>>

RunnerIdle ==
    /\ cmd = ""
    /\ max_retries = 0
    /\ attempt = 0
    /\ rpc = "idle"
    /\ outcomes = <<>>
    /\ sleeps = <<>>
    /\ raised = <<>>

Init == GuiInit /\ RunnerIdle

\* --------------------------------------------------------------- actions
\* The button's command; Tk invokes it only while the button is enabled.
start_installation ==
    /\ mainloop = "running"
    /\ install_button = "normal"
    /\ Len(runs) < MaxRuns
    /\ LET run == Len(runs) + 1
           g0 == StartGui
           gen == generate_script_content(IS_TEST_MODE, IS_WINDOWS)
           script_path == gen.filename
       IN \E w \in WriteOutcomes(IS_WINDOWS), s \in {"ok"} \cup SpawnErrors :
            /\ script' = WriteScript(script, gen, w.stage, IS_WINDOWS, run)
            /\ IF w.stage # "ok" THEN
                  /\ s = "ok"
                  /\ dialogs' = Append(dialogs, showerror("File Error",
                                   <<"Could not create temporary script: ", w.err>>, run))
                  /\ SetGui(reset_gui(g0))
                  /\ runs' = Append(runs, [outcome |-> "file_error", err |-> w.err,
                                           proc |-> 0])
                  /\ UNCHANGED <<procs, timers>>
               ELSE IF s # "ok" THEN
                  /\ dialogs' = Append(dialogs, showerror("Execution Error",
                                   <<"Failed to start installation process. Check Conda setup: ", s>>,
                                   run))
                  /\ SetGui(reset_gui(g0))
                  /\ runs' = Append(runs, [outcome |-> "exec_error", err |-> s,
                                           proc |-> 0])
                  /\ UNCHANGED <<procs, timers>>
               ELSE
                  /\ procs' = Append(procs,
                                Popen(PopenArgs(IS_WINDOWS, script_path), script_path, run))
                  /\ timers' = after(timers, POLL_INTERVAL, Len(procs) + 1)
                  /\ SetGui(g0)
                  /\ runs' = Append(runs, [outcome |-> "spawned", err |-> "",
                                           proc |-> Len(procs) + 1])
                  /\ UNCHANGED dialogs
    /\ UNCHANGED <<envVars, runnerVars>>

\* The background process ends on its own with some exit status.
ProcessExit ==
    /\ \E p \in 1..Len(procs), rc \in ExitCodes(IS_WINDOWS) :
         /\ procs[p].state = "running"
         /\ procs' = [procs EXCEPT ![p].state = "exited", ![p].exit_status = rc]
    /\ UNCHANGED <<envVars, install_button, status_var, progress,
                   script, runs, timers, dialogs, runnerVars>>

\* A pending timer fires and runs _monitor_process(process, script_path).
monitor_process ==
    /\ mainloop = "running"
    /\ \E i \in 1..Len(timers), rm \in RemoveOutcomes :
         LET p == timers[i].proc
             rest == RemoveAt(timers, i)
             process == poll(procs[p])
             done == process.returncode # None
         IN /\ script' = cleanup_script(script, done, rm)
            /\ IF ~done THEN
                  /\ rm = "ok"
                  /\ timers' = after(rest, POLL_INTERVAL, p)
                  /\ procs' = [procs EXCEPT ![p] =
                                 [process EXCEPT !.polls =
                                     IF @ < MaxPolls THEN @ + 1 ELSE @]]
                  /\ UNCHANGED <<install_button, status_var, progress, dialogs>>
               ELSE
                  LET rep == Report(process.returncode, IS_TEST_MODE, process.run)
                  IN /\ timers' = rest
                     /\ progress' = [packed |-> FALSE, running |-> FALSE]
                     /\ dialogs' = Append(dialogs, rep.dialog)
                     /\ status_var' = rep.status
                     /\ install_button' = MonitorButton
                     /\ procs' = [procs EXCEPT ![p] =
                                    [process EXCEPT !.observed = @ + 1,
                                        !.remove = IF script.exists THEN rm ELSE "missing"]]
    /\ UNCHANGED <<envVars, runs, runnerVars>>

Next == start_installation \/ ProcessExit \/ monitor_process

Spec == Init /\ [][Next]_vars

\* Tk's event loop runs every timer that is due.
FairSpec == Spec /\ WF_vars(monitor_process)

\* ------------------------------------------------ the command runner (4.1)
Commands == {"git clone", "build.sh"}

AttemptOutcomes ==
    [kind : {"exit"}, code : 0..MaxExit, err : {""}]
    \cup [kind : {"spawn_error"}, code : {0}, err : SpawnErrors]

Pow2(n) == 2 ^ n

BackoffLinear(a) == 2 * a

\* "sleep for 2^attempt time units (attempt is 0-indexed)"
Backoff(a) == Pow2(a)

CommandFailed(code, command) ==
    [kind |-> "CommandFailed", code |-> code, cmd |-> command, err |-> ""]

RaisedErrorWrapped(o, command) == CommandFailed(o.code, command)

\* What the final attempt raises: CommandFailed for a non-zero exit, the
\* spawn error itself otherwise.
RaisedError(o, command) ==
    IF o.kind = "exit" THEN CommandFailed(o.code, command)
    ELSE [kind |-> o.kind, code |-> o.code, cmd |-> "", err |-> o.err]

RunnerStart ==
    /\ cmd \in Commands
    /\ max_retries \in 1..MaxRetriesBound
    /\ attempt = 0
    /\ rpc = "attempt"
    /\ outcomes = <<>>
    /\ sleeps = <<>>
    /\ raised = <<>>

\* One invocation: spawn, read the output, wait, look at the exit status.
run_attempt ==
    /\ rpc = "attempt"
    /\ \E o \in AttemptOutcomes :
         /\ outcomes' = Append(outcomes, o)
         /\ IF o.kind = "exit" /\ o.code = 0 THEN
               /\ rpc' = "returned"
               /\ UNCHANGED raised
            ELSE IF attempt = max_retries - 1 THEN
               /\ rpc' = "raised"
               /\ raised' = Append(raised, RaisedError(o, cmd))
            ELSE
               /\ rpc' = "sleeping"
               /\ UNCHANGED raised
    /\ UNCHANGED <<cmd, max_retries, attempt, sleeps, guiVars>>

\* The backoff between two attempts.
run_sleep ==
    /\ rpc = "sleeping"
    /\ sleeps' = Append(sleeps, Backoff(attempt))
    /\ attempt' = attempt + 1
    /\ rpc' = "attempt"
    /\ UNCHANGED <<cmd, max_retries, outcomes, raised, guiVars>>

RunnerNext == run_attempt \/ run_sleep

RunnerInit == GuiInit /\ RunnerStart

RunnerSpec == RunnerInit /\ [][RunnerNext]_vars

\* ================================================================ claims
Outstanding == {p \in 1..Len(procs) : procs[p].observed = 0}

TimersOf(p) == {i \in 1..Len(timers) : timers[i].proc = p}

OutcomeDialogs(r) ==
    {i \in 1..Len(dialogs) :
        dialogs[i].run = r /\ dialogs[i].title \in {"Success", "Installation Failed"}}

Last(s) == s[Len(s)]

\* C1: at most one spawned process is outstanding (spawned and not yet
\* observed exited by _monitor_process) in every reachable state, and while
\* one is outstanding the start button is disabled, so a second trigger
\* cannot spawn another.
C1_AtMostOneOutstanding ==
    /\ Cardinality(Outstanding) <= 1
    /\ Outstanding # {} => install_button = "disabled"

\* A second process has been spawned, after the first was observed exited.
C1_Witness ==
    /\ Len(procs) = 2
    /\ procs[1].observed = 1
    /\ Outstanding = {2}

\* C2: when start_installation fails while writing the script or spawning,
\* an error dialog carrying the error is shown and the interface is back in
\* its ready state: button enabled, progress bar stopped and hidden, status
\* 'Ready to start installation.', no timer armed, no process outstanding.
C2_FailureResetsGui ==
    (Len(runs) > 0 /\ Last(runs).outcome \in {"file_error", "exec_error"}) =>
        /\ install_button = "normal"
        /\ progress = [packed |-> FALSE, running |-> FALSE]
        /\ status_var = READY
        /\ timers = <<>>
        /\ Outstanding = {}
        /\ Len(dialogs) > 0
        /\ Last(dialogs).kind = "error"
        /\ Last(dialogs).run = Len(runs)
        /\ Last(dialogs).title =
              (IF Last(runs).outcome = "file_error" THEN "File Error"
               ELSE "Execution Error")
        /\ Last(dialogs).text[2] = Last(runs).err

\* A script-preparation failure was followed by a new start trigger, which
\* failed at the spawn.
C2_Witness ==
    /\ Len(runs) = 2
    /\ runs[1].outcome = "file_error"
    /\ runs[2].outcome = "exec_error"
    /\ install_button = "normal"

\* C3 (state part): a process not yet observed exited has exactly one poll
\* timer pending, of 1000 ms; once observed it has none, and it is observed
\* at most once.
C3_Rearmed ==
    \A p \in 1..Len(procs) :
        /\ procs[p].observed <= 1
        /\ procs[p].observed = 0 =>
              /\ Cardinality(TimersOf(p)) = 1
              /\ \A i \in TimersOf(p) : timers[i].ms = POLL_INTERVAL
        /\ procs[p].observed = 1 => TimersOf(p) = {}

\* C3 (step part): the step that observes the exit attempts the removal of
\* the script, reports the outcome, re-enables the button and arms no timer.
C3_ObserveStep ==
    \A p \in 1..Len(procs) :
        (procs[p].observed = 0 /\ procs'[p].observed = 1) =>
            /\ procs[p].state = "exited"
            /\ procs'[p].remove \in RemoveOutcomes
            /\ procs'[p].remove = "ok" => ~script'.exists
            /\ Len(dialogs') = Len(dialogs) + 1
            /\ Last(dialogs').run = procs[p].run
            /\ status_var' \in {FINISHED, FAILED}
            /\ progress' = [packed |-> FALSE, running |-> FALSE]
            /\ install_button' = "normal"
            /\ timers' = <<>>

\* C3 (progress part): an exit is eventually observed.
C3_EventuallyObserved ==
    \A p \in 1..MaxRuns :
        (Len(procs) >= p /\ procs[p].state = "exited")
            ~> (Len(procs) >= p /\ procs[p].observed = 1)

C4_OutcomeReported ==
    \A p \in 1..Len(procs) :
        LET r == procs[p].run IN
        /\ procs[p].observed = 0 =>
              /\ OutcomeDialogs(r) = {}
              /\ status_var \notin {FINISHED, FAILED}
        /\ procs[p].observed >= 1 =>
              /\ Cardinality(OutcomeDialogs(r)) = 1
              /\ \A i \in OutcomeDialogs(r) :
                    /\ (dialogs[i].kind = "info") <=> (procs[p].exit_status = 0)
                    /\ (dialogs[i].kind = "error") <=> (procs[p].exit_status # 0)
                    /\ (dialogs[i].title = "Success") <=> (procs[p].exit_status = 0)
              /\ r = Len(runs) =>
                    /\ (status_var = FINISHED) <=> (procs[p].exit_status = 0)
                    /\ (status_var = FAILED) <=> (procs[p].exit_status # 0)

\* Two observed runs, one that exited zero and one that did not.
C4_Witness ==
    /\ Len(procs) = 2
    /\ procs[1].observed = 1 /\ procs[1].exit_status # 0
    /\ procs[2].observed = 1 /\ procs[2].exit_status = 0
    /\ status_var = FINISHED

\* C5: while a spawned process has not been observed exited, the script
\* file exists, complete, as written by that process's own run: the
\* installer has neither rewritten nor removed it.
C5_ScriptKeptWhileOutstanding ==
    \A p \in Outstanding :
        /\ script.exists
        /\ script.complete
        /\ script.writer = procs[p].run
        /\ script.content =
              generate_script_content(IS_TEST_MODE, IS_WINDOWS).content

\* The second run's process has been polled and has exited, unobserved yet.
C5_Witness ==
    \E p \in Outstanding :
        /\ procs[p].run = 2
        /\ procs[p].polls >= 1
        /\ procs[p].state = "exited"
        /\ script.exists

\* C6: once the start button is enabled again, the temporary script no
\* longer exists, whatever the run's outcome.
C6_ScriptRemovedAfterUse ==
    install_button = "normal" => ~script.exists

Carries(text, details) == \E i \in 1..Len(text) : text[i] \in details

RunFailed(r) ==
    \/ runs[r].outcome \in {"file_error", "exec_error"}
    \/ /\ runs[r].outcome = "spawned"
       /\ procs[runs[r].proc].observed >= 1
       /\ procs[runs[r].proc].exit_status # 0

FailureDetails(r) ==
    IF runs[r].outcome = "spawned"
    THEN {ToString(procs[runs[r].proc].exit_status),
          procs[runs[r].proc].script_path}
    ELSE {runs[r].err}

\* C7: every run that ended in failure produced an error dialog whose text
\* carries the failing command or the exit status / error detail.
C7_FailuresCarryDetail ==
    \A r \in 1..Len(runs) :
        RunFailed(r) =>
            \E i \in 1..Len(dialogs) :
                /\ dialogs[i].run = r
                /\ dialogs[i].kind = "error"
                /\ Carries(dialogs[i].text, FailureDetails(r))

\* C10: the start button is disabled exactly when one poll timer is pending
\* for a process not yet observed exited.
C10_DisabledIffPolling ==
    /\ (install_button = "disabled") <=>
          (Len(timers) = 1 /\ timers[1].proc \in Outstanding)
    /\ (install_button = "normal") <=> (timers = <<>>)

\* A second run is being polled (button disabled) after the first run ended.
C10_Witness ==
    /\ Len(runs) = 2
    /\ install_button = "disabled"
    /\ Len(timers) = 1
    /\ procs[timers[1].proc].polls >= 1

NonZeroExit(o) == o.kind = "exit" /\ o.code # 0

ZeroExit(o) == o.kind = "exit" /\ o.code = 0

RECURSIVE SumSeq(_)
SumSeq(s) == IF s = <<>> THEN 0 ELSE s[1] + SumSeq(Tail(s))

\* C8: a command that exits non-zero on every attempt is attempted exactly
\* max_retries times, with a sleep of 2^attempt after each non-final
\* attempt, and then CommandFailed is raised once with the exit status and
\* the command; a zero exit returns at that attempt, with nothing after it.
C8_RetryWithBackoff ==
    /\ Len(raised) <= 1
    /\ Len(outcomes) <= max_retries
    /\ (rpc = "raised" /\ \A i \in 1..Len(outcomes) : NonZeroExit(outcomes[i])) =>
          /\ Len(outcomes) = max_retries
          /\ sleeps = [i \in 1..(max_retries - 1) |-> Pow2(i - 1)]
          /\ SumSeq(sleeps) = Pow2(max_retries - 1) - 1
          /\ raised = <<[kind |-> "CommandFailed", code |-> Last(outcomes).code,
                         cmd |-> cmd, err |-> ""]>>
    /\ rpc = "returned" =>
          /\ ZeroExit(Last(outcomes))
          /\ \A i \in 1..(Len(outcomes) - 1) : ~ZeroExit(outcomes[i])
          /\ Len(sleeps) = Len(outcomes) - 1
          /\ raised = <<>>
    /\ (\E i \in 1..Len(outcomes) : ZeroExit(outcomes[i])) => rpc = "returned"

\* Three non-zero exits with max_retries = 3: delays 1 and 2, then the raise.
C8_Witness ==
    /\ max_retries = 3
    /\ rpc = "raised"
    /\ \A i \in 1..Len(outcomes) : NonZeroExit(outcomes[i])
    /\ sleeps = <<1, 2>>

\* C9: a spawn error on a non-final attempt is followed by the backoff and
\* another attempt; on the final attempt it is raised as it is.
C9_SpawnErrorRetried ==
    \A i \in 1..Len(outcomes) :
        outcomes[i].kind = "spawn_error" =>
            IF i < max_retries
            THEN /\ i = Len(outcomes) =>
                       \/ rpc = "sleeping" /\ Len(sleeps) = i - 1
                       \/ rpc = "attempt" /\ Len(sleeps) = i
                 /\ Len(sleeps) >= i => sleeps[i] = Pow2(i - 1)
                 /\ i < Len(outcomes) => Len(sleeps) >= i
            ELSE /\ rpc = "raised"
                 /\ raised = <<[kind |-> "spawn_error", code |-> 0, cmd |-> "",
                                err |-> outcomes[i].err]>>

\* A spawn error was retried and a spawn error on the last attempt raised.
C9_Witness ==
    /\ max_retries = 3
    /\ Len(outcomes) = 3
    /\ outcomes[1].kind = "spawn_error"
    /\ outcomes[3].kind = "spawn_error"
    /\ rpc = "raised"

====
